---- MODULE Spec2Model ----
(***************************************************************************)
(* Model of the tslint rule "fences" (tsDepTrac): Rule.applyWithProgram   *)
(* and walk of src/src/depTracRule.ts and the helpers fileToPackage,      *)
(* resolveRelativeImport, isImport and resolvePackageLayer of the utils   *)
(* module (src/unnamed/part_000).                                         *)
(*                                                                         *)
(* A JavaScript string is a sequence of one-character strings, so that    *)
(* startsWith, substring, indexOf and the path functions work on          *)
(* characters as the code does.                                           *)
(***************************************************************************)
EXTENDS Integers, Sequences, FiniteSets, TLC

\* ------------------------------------------------------------------------
\* JavaScript string primitives
\* ------------------------------------------------------------------------

SetMax(S) == CHOOSE x \in S : \A y \in S : y <= x

\* s.startsWith(p)
StartsWith(s, p) == Len(p) <= Len(s) /\ SubSeq(s, 1, Len(p)) = p

\* s.endsWith(p)
EndsWith(s, p) == Len(p) <= Len(s) /\ SubSeq(s, Len(s) - Len(p) + 1, Len(s)) = p

\* s.substring(n) / s.substr(n): the characters from 0-based index n on
SubstrFrom(s, n) == IF n >= Len(s) THEN <<>> ELSE SubSeq(s, n + 1, Len(s))

\* s.indexOf(p) !== -1
Contains(s, p) ==
    \E i \in 1..(Len(s) - Len(p) + 1) : SubSeq(s, i, i + Len(p) - 1) = p

\* s.split(c) for a one-character separator
RECURSIVE SplitOn(_, _)
SplitOn(s, c) ==
    IF s = <<>> THEN << <<>> >>
    ELSE LET r == SplitOn(Tail(s), c) IN
         IF Head(s) = c THEN << <<>> >> \o r
         ELSE << <<Head(s)>> \o Head(r) >> \o Tail(r)

\* parts.join(c)
RECURSIVE JoinWith(_, _)
JoinWith(parts, c) ==
    IF parts = <<>> THEN <<>>
    ELSE IF Len(parts) = 1 THEN Head(parts)
    ELSE Head(parts) \o <<c>> \o JoinWith(Tail(parts), c)

\* toLowerCase of one character (the alphabet of the model has two capitals)
LowerChar(c) == IF c = "U" THEN "u" ELSE IF c = "C" THEN "c" ELSE c

LowerCase(s) == [i \in 1..Len(s) |-> LowerChar(s[i])]

\* ------------------------------------------------------------------------
\* node's path module, POSIX flavour, as used by the utils
\* ------------------------------------------------------------------------

\* normalizeString: resolves "." and ".." segments and drops empty ones
RECURSIVE NormalizeSegs(_, _, _)
NormalizeSegs(segs, acc, allowAboveRoot) ==
    IF segs = <<>> THEN acc
    ELSE LET s == Head(segs) IN
         IF s = <<>> \/ s = <<".">>
         THEN NormalizeSegs(Tail(segs), acc, allowAboveRoot)
         ELSE IF s = <<".", ".">>
         THEN IF acc # <<>> /\ acc[Len(acc)] # <<".", ".">>
              THEN NormalizeSegs(Tail(segs), SubSeq(acc, 1, Len(acc) - 1), allowAboveRoot)
              ELSE IF allowAboveRoot
              THEN NormalizeSegs(Tail(segs), Append(acc, s), allowAboveRoot)
              ELSE NormalizeSegs(Tail(segs), acc, allowAboveRoot)
         ELSE NormalizeSegs(Tail(segs), Append(acc, s), allowAboveRoot)

\* path.normalize
PathNormalize(p) ==
    IF p = <<>> THEN <<".">>
    ELSE LET isAbsolute == p[1] = "/"
             trailingSep == p[Len(p)] = "/"
             body == JoinWith(NormalizeSegs(SplitOn(p, "/"), <<>>, ~isAbsolute), "/")
             rel == IF body = <<>>
                    THEN (IF isAbsolute THEN <<>> ELSE IF trailingSep THEN <<".", "/">> ELSE <<".">>)
                    ELSE IF trailingSep THEN body \o <<"/">> ELSE body
         IN IF isAbsolute THEN <<"/">> \o rel ELSE rel

\* path.join(a, b)
PathJoin(a, b) ==
    IF a = <<>> /\ b = <<>> THEN <<".">>
    ELSE IF a = <<>> THEN PathNormalize(b)
    ELSE IF b = <<>> THEN PathNormalize(a)
    ELSE PathNormalize(a \o <<"/">> \o b)

\* path.dirname
PathDirname(p) ==
    IF p = <<>> THEN <<".">>
    ELSE LET cuts == {i \in 2..Len(p) :
                        p[i] = "/" /\ \E j \in (i + 1)..Len(p) : p[j] # "/"}
         IN IF cuts = {} THEN (IF p[1] = "/" THEN <<"/">> ELSE <<".">>)
            ELSE IF p[1] = "/" /\ SetMax(cuts) = 2 THEN <<"/", "/">>
            ELSE SubSeq(p, 1, SetMax(cuts) - 1)

\* the name field of path.parse: the base name without its extension
ParsedName(base) ==
    LET dots == {i \in 1..Len(base) : base[i] = "."} IN
    IF dots = {} THEN base
    ELSE LET startDot == SetMax(dots) IN
         IF startDot = 1 THEN base
         ELSE IF base[1] = "." /\ startDot = Len(base) /\ startDot = 2 THEN base
         ELSE SubSeq(base, 1, startDot - 1)

\* path.parse of a path without trailing separators: its dir and name fields
PathParse(p) ==
    LET slashes == {i \in 1..Len(p) : p[i] = "/"} IN
    IF slashes = {} THEN [dir |-> <<>>, name |-> ParsedName(p)]
    ELSE LET last == SetMax(slashes) IN
         [dir  |-> IF last = 1 THEN <<"/">> ELSE SubSeq(p, 1, last - 1),
          name |-> ParsedName(SubstrFrom(p, last))]

\* ------------------------------------------------------------------------
\* JavaScript objects used as tables
\* ------------------------------------------------------------------------

\* The value undefined: no JavaScript string, every string being a sequence
\* of one-character strings.
Undefined == <<"undefined">>

\* undefined where a list of strings is expected, and where a table is
NoList == << Undefined >>

NoTable == << [name |-> Undefined, list |-> <<>>] >>

\* A table (layers, rules) is the sequence of its entries [name, list] in the
\* order the configuration declares them; names are unique.
TableNames(tbl) == {tbl[i].name : i \in 1..Len(tbl)}

\* tbl[name]
TableGet(tbl, name) ==
    IF name \in TableNames(tbl)
    THEN (CHOOSE e \in {tbl[i] : i \in 1..Len(tbl)} : e.name = name).list
    ELSE NoList

Digits == {"0", "1", "2", "3", "4", "5", "6", "7", "8", "9"}

DigitValue(c) == CHOOSE n \in 0..9 : <<"0", "1", "2", "3", "4", "5", "6", "7", "8", "9">>[n + 1] = c

\* A property name that is a canonical array index ("0", "7", "12", not "07"):
\* own properties with such names are enumerated first, in ascending order.
IsArrayIndex(name) ==
    /\ name # <<>>
    /\ \A i \in 1..Len(name) : name[i] \in Digits
    /\ (Len(name) > 1 => name[1] # "0")

RECURSIVE ArrayIndexValue(_)
ArrayIndexValue(name) ==
    IF name = <<>> THEN 0
    ELSE 10 * ArrayIndexValue(SubSeq(name, 1, Len(name) - 1)) + DigitValue(name[Len(name)])

RECURSIVE SortedIndexNames(_)
SortedIndexNames(S) ==
    IF S = {} THEN <<>>
    ELSE LET least == CHOOSE x \in S :
                        \A y \in S : ArrayIndexValue(x) <= ArrayIndexValue(y)
         IN <<least>> \o SortedIndexNames(S \ {least})

\* The names of tbl that are no array index, in declaration order
RECURSIVE PlainNames(_)
PlainNames(tbl) ==
    IF tbl = <<>> THEN <<>>
    ELSE (IF IsArrayIndex(Head(tbl).name) THEN <<>> ELSE <<Head(tbl).name>>)
         \o PlainNames(Tail(tbl))

\* Object.keys(tbl): array-index names ascending, then the others as declared
ObjectKeys(tbl) ==
    SortedIndexNames({n \in TableNames(tbl) : IsArrayIndex(n)}) \o PlainNames(tbl)

\* ------------------------------------------------------------------------
\* minimatch: match([f], pattern, {matchBase: true, nocase: true}).length > 0
\* for patterns made of literals, "*" and "**"
\* ------------------------------------------------------------------------

\* collapses runs of "/" (paths and patterns are split on /\/+/)
RECURSIVE CollapseSlashes(_)
CollapseSlashes(s) ==
    IF Len(s) < 2 THEN s
    ELSE IF s[1] = "/" /\ s[2] = "/" THEN CollapseSlashes(Tail(s))
    ELSE <<Head(s)>> \o CollapseSlashes(Tail(s))

SlashSplit(s) == SplitOn(CollapseSlashes(s), "/")

\* a pattern part with "*" as the regular expression it is compiled to
RECURSIVE StarMatch(_, _)
StarMatch(p, s) ==
    IF p = <<>> THEN s = <<>>
    ELSE IF Head(p) = "*"
    THEN StarMatch(Tail(p), s) \/ (s # <<>> /\ StarMatch(p, Tail(s)))
    ELSE s # <<>> /\ Head(s) = Head(p) /\ StarMatch(Tail(p), Tail(s))

HasMagic(p) == \E i \in 1..Len(p) : p[i] = "*"

\* one pattern part against one path part, nocase
PartMatch(p, f) ==
    IF ~HasMagic(p) THEN LowerCase(f) = LowerCase(p)
    ELSE /\ (p[1] = "*" => (f # <<>> /\ f[1] # "."))
         /\ StarMatch(LowerCase(p), LowerCase(f))

GlobStar == <<"*", "*">>

DotPart(f) == f # <<>> /\ f[1] = "."

\* Minimatch.prototype.matchOne, partial = false
RECURSIVE MatchOne(_, _)
MatchOne(file, pattern) ==
    IF file = <<>> /\ pattern = <<>> THEN TRUE
    ELSE IF file = <<>> THEN FALSE
    ELSE IF pattern = <<>> THEN Len(file) = 1 /\ file[1] = <<>>
    ELSE IF Head(pattern) = GlobStar
    THEN IF Len(pattern) = 1
         THEN \A i \in 1..Len(file) : ~DotPart(file[i])
         ELSE \E fr \in 1..Len(file) :
                 /\ \A k \in 1..(fr - 1) : ~DotPart(file[k])
                 /\ MatchOne(SubSeq(file, fr, Len(file)), Tail(pattern))
    ELSE PartMatch(Head(pattern), Head(file)) /\ MatchOne(Tail(file), Tail(pattern))

\* the last non-empty part of a split path
BaseName(parts) ==
    LET full == {i \in 1..Len(parts) : parts[i] # <<>>} IN
    IF full = {} THEN parts[1] ELSE parts[SetMax(full)]

Minimatch(f, pattern) ==
    IF pattern = <<>> THEN f = <<>>
    ELSE LET pparts == SlashSplit(pattern)
             fparts == SlashSplit(f)
         IN MatchOne(IF Len(pparts) = 1 THEN <<BaseName(fparts)>> ELSE fparts, pparts)

\* list.some(pattern => match([f], pattern, ...).length > 0)
AnyPatternMatches(patterns, f) == \E i \in 1..Len(patterns) : Minimatch(f, patterns[i])

\* ------------------------------------------------------------------------
\* utils: fileToPackage, resolveRelativeImport, resolvePackageLayer
\* ------------------------------------------------------------------------

fileToPackage(originalPath, baseUrl) ==
    LET parsed == PathParse(PathNormalize(originalPath))
        dir == IF baseUrl # Undefined /\ baseUrl # <<>> /\ StartsWith(parsed.dir, baseUrl)
               THEN SubstrFrom(parsed.dir, Len(baseUrl) + 1)
               ELSE parsed.dir
    IN IF dir = <<>> THEN parsed.name ELSE dir \o <<"/">> \o parsed.name

\* the quote stripping of resolveRelativeImport
StripQuotes(importedPackage) ==
    IF StartsWith(importedPackage, <<"'">>) /\ EndsWith(importedPackage, <<"'">>)
    THEN (IF Len(importedPackage) < 2 THEN <<>>
          ELSE SubSeq(importedPackage, 2, Len(importedPackage) - 1))
    ELSE importedPackage

\* the base directory stripping of resolveRelativeImport
StripBase(resolvedPackage, baseUrl) ==
    IF StartsWith(resolvedPackage, baseUrl)
    THEN SubstrFrom(resolvedPackage, Len(baseUrl) + 1)
    ELSE resolvedPackage

resolveRelativeImport(importedPackage, importingFile, baseUrl) ==
    LET unquoted == StripQuotes(importedPackage) IN
    IF ~Contains(unquoted, <<".", "/">>) /\ ~Contains(unquoted, <<".", ".", "/">>)
    THEN unquoted
    ELSE StripBase(PathJoin(PathDirname(importingFile), unquoted), baseUrl)

\* Object.keys(layers).find(...): the first key in enumeration order
RECURSIVE FindFirst(_, _, _)
FindFirst(keys, layers, filePackage) ==
    IF keys = <<>> THEN Undefined
    ELSE IF AnyPatternMatches(TableGet(layers, Head(keys)), filePackage) THEN Head(keys)
    ELSE FindFirst(Tail(keys), layers, filePackage)

resolvePackageLayer(layers, filePackage) ==
    FindFirst(ObjectKeys(layers), layers, filePackage)

\* ------------------------------------------------------------------------
\* Syntax trees.  A tree is the sequence of its nodes in document order
\* (pre-order); node 0, which is not in the sequence, is the SourceFile.
\* ------------------------------------------------------------------------

Node(kind, parent, text) == [kind |-> kind, parent |-> parent, text |-> text]

\* node.forEachChild: the children of n, in document order
RECURSIVE ChildrenFrom(_, _, _)
ChildrenFrom(tree, n, i) ==
    IF i > Len(tree) THEN <<>>
    ELSE (IF tree[i].parent = n THEN <<i>> ELSE <<>>) \o ChildrenFrom(tree, n, i + 1)

Children(tree, n) == ChildrenFrom(tree, n, 1)

KindOf(tree, n) == IF n = 0 THEN "SourceFile" ELSE tree[n].kind

isImport(tree, n) ==
    \/ /\ tree[n].kind = "BigIntLiteral"
       /\ KindOf(tree, tree[n].parent) = "NamespaceExportDeclaration"
    \/ /\ tree[n].kind = "StringLiteral"
       /\ KindOf(tree, tree[n].parent) = "ImportDeclaration"

\* ------------------------------------------------------------------------
\* The check of one file: Rule.applyWithProgram and walk
\* ------------------------------------------------------------------------

\* Failures are records; msg names the message template, the other fields
\* are the values the template embeds.
Failure(node, msg, layer, importedLayer, package) ==
    [at |-> node, msg |-> msg, layer |-> layer,
     importedLayer |-> importedLayer, package |-> package]

\* fromNullable(codec, a): the default a for an absent value
fromNullable(u, undefined, a) == IF u = undefined THEN a ELSE u

\* decode(ruleArguments[0], optionsDecoder) does not throw: the argument has
\* the record shape, its filePackage and baseUrl are the literals the decoder
\* was built with, and its layer is undefined.
DecodeSucceeds(raw, filePackage, baseUrl) ==
    /\ raw.shapeOk
    /\ raw.filePackage = filePackage
    /\ raw.layer = Undefined
    /\ raw.baseUrl = baseUrl

\* the decoded options
Decode(raw) ==
    [layers      |-> fromNullable(raw.layers, NoTable, <<>>),
     rules       |-> fromNullable(raw.rules, NoTable, <<>>),
     excluded    |-> fromNullable(raw.excluded, NoList, <<>>),
     filePackage |-> raw.filePackage,
     layer       |-> raw.layer,
     baseUrl     |-> raw.baseUrl]

\* the decoder hands back its input object when no default was filled in
\* (and the codec does not copy for the absent layer key)
MayAlias(raw) ==
    /\ raw.layers # NoTable
    /\ raw.rules # NoTable
    /\ raw.excluded # NoList
    /\ raw.debug # Undefined

SeqToSet(q) == {q[i] : i \in 1..Len(q)}

UsedNamesKeysOnly(rules) == TableNames(rules)

\* usedNames: the keys of rules and the elements of its lists
UsedNames(rules) ==
    TableNames(rules) \cup UNION {SeqToSet(rules[i].list) : i \in 1..Len(rules)}

\* usedNames.filter((l) => !layerNames.includes(l)), as a set
UndeclaredNames(options) ==
    {l \in UsedNames(options.rules) : l \notin SeqToSet(ObjectKeys(options.layers))}

IsExcludedFirstOnly(options, filePackage) ==
    options.excluded # <<>> /\ Minimatch(filePackage, options.excluded[1])

IsExcluded(options, filePackage) == AnyPatternMatches(options.excluded, filePackage)

NotAllowedIfListed(rules, layer, importedLayer) ==
    LET allowedLayers == TableGet(rules, layer) IN
    allowedLayers # NoList /\ importedLayer \notin SeqToSet(allowedLayers)

\* !allowedLayers || !allowedLayers.includes(importedLayer)
NotAllowed(rules, layer, importedLayer) ==
    LET allowedLayers == TableGet(rules, layer) IN
    allowedLayers = NoList \/ importedLayer \notin SeqToSet(allowedLayers)

\* !ctx.options.layer
NoLayer(layer) == layer = Undefined \/ layer = <<>>

\* what one call of the callback cb does: the failures it adds, whether it
\* sets aborted, and whether it goes on into the node's children
UnclassifiedGoesOn(node, filePackage) ==
    [failures |-> <<Failure(node, "FileNotInLayers", <<>>, <<>>, filePackage)>>,
     abort |-> FALSE, descend |-> FALSE]

Unclassified(node, filePackage) ==
    [failures |-> <<Failure(node, "FileNotInLayers", <<>>, <<>>, filePackage)>>,
     abort |-> TRUE, descend |-> FALSE]

UnmatchedAborts(node, importedPackage) ==
    [failures |-> <<Failure(node, "NotMatched", <<>>, <<>>, importedPackage)>>,
     abort |-> TRUE, descend |-> FALSE]

Unmatched(node, importedPackage) ==
    [failures |-> <<Failure(node, "NotMatched", <<>>, <<>>, importedPackage)>>,
     abort |-> FALSE, descend |-> FALSE]

SameLayerNever(importedLayer, layer) == FALSE

SameLayer(importedLayer, layer) == importedLayer = layer

Disallowed(node, layer, importedLayer, importedPackage) ==
    [failures |-> <<Failure(node, "NotAllowed", layer, importedLayer, importedPackage)>>,
     abort |-> FALSE, descend |-> FALSE]

Skip == [failures |-> <<>>, abort |-> FALSE, descend |-> FALSE]

Descend == [failures |-> <<>>, abort |-> FALSE, descend |-> TRUE]

\* the callback cb of walk for one node, aborted being false
cb(opts, file, node) ==
    IF NoLayer(opts.layer) THEN Unclassified(node, opts.filePackage)
    ELSE IF isImport(file.tree, node)
    THEN LET importedPackage ==
                 resolveRelativeImport(file.tree[node].text, file.fileName, opts.baseUrl)
             importedLayer == resolvePackageLayer(opts.layers, importedPackage)
         IN IF NoLayer(importedLayer) THEN Unmatched(node, importedPackage)
            ELSE IF SameLayer(importedLayer, opts.layer) THEN Skip
            ELSE IF NotAllowed(opts.rules, opts.layer, importedLayer)
            THEN Disallowed(node, opts.layer, importedLayer, importedPackage)
            ELSE Descend
    ELSE Descend

\* ------------------------------------------------------------------------
\* Bounds and the inputs of the model
\* ------------------------------------------------------------------------

\* files checked in one run
MaxFiles == 2

\* import declarations in one file
MaxImports == 2

\* the base directory /b
BaseDir == <<"/", "b">>

FileUi   == <<"/", "b", "/", "u", "/", "x", ".", "t", "s">>
FileCore == <<"/", "b", "/", "c", "/", "y", ".", "t", "s">>
FileRoot == <<"/", "b", "/", "z", ".", "t", "s">>
FileSpec == <<"/", "b", "/", "u", "/", "k", ".", "s", ".", "t", "s">>
FileLoose == <<"/", "b", "/", "q", "/", "z", ".", "t", "s">>

FileNames == {FileUi, FileCore, FileLoose, FileSpec}

\* the text of import specifier tokens, quotes included
TextCore   == <<"'", ".", ".", "/", "c", "/", "y", "'">>
TextSame   == <<"'", ".", "/", "w", "'">>
TextLib    == <<"'", "l", "'">>

ImportTexts == {TextCore, TextSame, TextLib}

RECURSIVE SeqsUpTo(_, _)
SeqsUpTo(S, n) ==
    IF n = 0 THEN {<<>>}
    ELSE LET shorter == SeqsUpTo(S, n - 1) IN
         shorter \cup {Append(q, x) : q \in {r \in shorter : Len(r) = n - 1}, x \in S}

\* the statements after the first import, each in the body of one module
\* declaration: ModuleDeclaration > ModuleBlock > ImportDeclaration > StringLiteral
RECURSIVE NestedImports(_, _, _)
NestedImports(texts, moduleBlock, next) ==
    IF texts = <<>> THEN <<>>
    ELSE <<Node("ImportDeclaration", moduleBlock, <<>>),
           Node("StringLiteral", next, Head(texts))>>
         \o NestedImports(Tail(texts), moduleBlock, next + 2)

\* The tree of a file with the given import specifiers: a directive
\* ('l' as an expression statement), the first import at top level, the other
\* imports inside a module declaration, and the end-of-file token every
\* SourceFile has.
TreeOf(texts) ==
    <<Node("ExpressionStatement", 0, <<>>), Node("StringLiteral", 1, TextLib)>>
    \o (IF texts = <<>> THEN <<>>
        ELSE <<Node("ImportDeclaration", 0, <<>>), Node("StringLiteral", 3, Head(texts))>>)
    \o (IF Len(texts) < 2 THEN <<>>
        ELSE <<Node("ModuleDeclaration", 0, <<>>), Node("ModuleBlock", 5, <<>>)>>
             \o NestedImports(Tail(texts), 6, 7))
    \o <<Node("EndOfFileToken", 0, <<>>)>>

SourceFiles ==
    {[fileName |-> f, tree |-> TreeOf(t)] :
        f \in FileNames, t \in SeqsUpTo(ImportTexts, MaxImports)}

NoFile == [fileName |-> <<>>, tree |-> <<>>]

\* layer names
Ui    == <<"u", "i">>
Core  == <<"c", "o">>
Db    == <<"d", "b">>
One   == <<"1">>
All   == <<"a", "l">>
Ghost == <<"g", "h">>

Entry(name, list) == [name |-> name, list |-> list]

\* ui: ["u/**"], co: ["c/**"], db: ["d/**"]
LayersPlain ==
    <<Entry(Ui, << <<"u", "/", "*", "*">> >>),
      Entry(Core, << <<"c", "/", "*", "*">> >>),
      Entry(Db, << <<"d", "/", "*", "*">> >>)>>

\* co: ["C/*"], "1": ["c/y", "d/**"], ui: ["U/**"]
LayersNumbered ==
    <<Entry(Core, << <<"C", "/", "*">> >>),
      Entry(One, << <<"c", "/", "y">>, <<"d", "/", "*", "*">> >>),
      Entry(Ui, << <<"U", "/", "*", "*">> >>)>>

\* ui: ["u/**"], al: ["*"]
LayersCatchAll ==
    <<Entry(Ui, << <<"u", "/", "*", "*">> >>),
      Entry(All, << <<"*">> >>)>>

Policy(layers, rules) == [layers |-> layers, rules |-> rules]

RulesNone     == <<>>
RulesUiCore   == <<Entry(Ui, <<Core>>), Entry(Core, <<>>)>>
RulesUiBoth   == <<Entry(Ui, <<Core, Db>>), Entry(Db, <<Ui>>)>>
RulesUiSelf   == <<Entry(Ui, <<Ui>>), Entry(Core, <<Db>>)>>
RulesGhostIn  == <<Entry(Ui, <<Core, Ghost>>)>>
RulesGhostKey == <<Entry(Ghost, <<Ui>>), Entry(Core, <<One, Ghost>>)>>
RulesOne      == <<Entry(One, <<Core>>), Entry(Core, <<Ui>>)>>
RulesAll      == <<Entry(Ui, <<All>>), Entry(All, <<>>)>>

\* the policies of the model: a layer table with an allow-list table
Policies ==
    {Policy(LayersPlain, r) :
        r \in {RulesNone, RulesUiCore, RulesUiSelf, RulesGhostIn}}
    \cup {Policy(LayersNumbered, r) : r \in {RulesOne, RulesGhostKey}}
    \cup {Policy(LayersCatchAll, r) : r \in {RulesAll, RulesNone, RulesUiBoth}}

\* ["*.s"] and ["*.s", "z"]
ExcludedLists == { << <<"*", ".", "s">> >>, << <<"*", ".", "s">>, <<"z">> >> }

\* the JSON number 0, as its text
DebugZero == <<"0">>

\* the values a configuration may give for filePackage
PackageLiterals == {fileToPackage(f, BaseDir) : f \in FileNames} \cup {Undefined}

RawArgs(shapeOk, layers, rules, excluded, debug, filePackage, layer, baseUrl) ==
    [shapeOk |-> shapeOk, layers |-> layers, rules |-> rules, excluded |-> excluded,
     debug |-> debug, filePackage |-> filePackage, layer |-> layer, baseUrl |-> baseUrl]

\* a well-formed argument for the file /b/u/x.ts
PlainArguments ==
    RawArgs(TRUE, LayersPlain, RulesUiCore, <<>>, DebugZero,
            fileToPackage(FileUi, BaseDir), Undefined, BaseDir)

\* PlainArguments with one field absent, unexpected or ill-typed
OddArguments ==
    {[PlainArguments EXCEPT !.layers = NoTable],
     [PlainArguments EXCEPT !.rules = NoTable],
     [PlainArguments EXCEPT !.excluded = NoList],
     [PlainArguments EXCEPT !.debug = Undefined],
     [PlainArguments EXCEPT !.layer = Ui],
     [PlainArguments EXCEPT !.baseUrl = Undefined],
     [PlainArguments EXCEPT !.shapeOk = FALSE]}

\* the rule arguments of a run: every policy with every exclusion list and
\* filePackage literal, and the odd ones
RuleArguments ==
    {RawArgs(TRUE, p.layers, p.rules, e, DebugZero, lit, Undefined, BaseDir) :
        p \in Policies, e \in ExcludedLists, lit \in PackageLiterals}
    \cup {PlainArguments}
    \cup OddArguments

\* the compiler options with the rule arguments of a run; a run without
\* baseUrl never reads its arguments
Configurations ==
    {[program |-> [baseUrl |-> BaseDir], ruleArguments |-> a] : a \in RuleArguments}
    \cup {[program |-> [baseUrl |-> Undefined], ruleArguments |-> a] :
             a \in {PlainArguments, [PlainArguments EXCEPT !.rules = RulesGhostIn]}}

\* ------------------------------------------------------------------------
\* State
\* ------------------------------------------------------------------------

VARIABLES
    program,        \* the compiler options: [baseUrl]
    ruleArguments,  \* ruleArguments[0], the object every file of the run is given
    pc,             \* "idle" between two files, "walk" inside walk, "returned"
                    \* when applyWithProgram has returned to the linter
    nFiles,         \* the calls of applyWithProgram so far
    sourceFile,     \* the file being checked, or checked last
    options,        \* ctx.options of the walk
    aborted,        \* the flag of walk
    pending,        \* the nodes forEachChild has yet to hand to the callback
    failures,       \* ctx.failures
    returned,       \* what applyWithProgram returned last
    errors,         \* the console.error calls of the run
    trace,          \* history of the check of sourceFile
    probe           \* inputs and results of the utils applied on their own

vars == <<program, ruleArguments, pc, nFiles, sourceFile, options, aborted,
          pending, failures, returned, errors, trace, probe>>

NoOptions ==
    [layers |-> <<>>, rules |-> <<>>, excluded |-> <<>>,
     filePackage |-> Undefined, layer |-> Undefined, baseUrl |-> Undefined]

\* outcome: how the check of the file ended; steps: what it did on the way;
\* processed: the nodes whose callback got past the aborted test
NoTrace == [outcome |-> "none", steps |-> {}, processed |-> <<>>]

NoProbe == [kind |-> "none"]

Init ==
    /\ \E c \in Configurations :
          /\ program = c.program
          /\ ruleArguments = c.ruleArguments
    /\ pc = "idle"
    /\ nFiles = 0
    /\ sourceFile = NoFile
    /\ options = NoOptions
    /\ aborted = FALSE
    /\ pending = <<>>
    /\ failures = <<>>
    /\ returned = <<>>
    /\ errors = <<>>
    /\ trace = NoTrace
    /\ probe = NoProbe

\* an early return [] of applyWithProgram, after the console.error calls errs
ReturnEmpty(outcome, steps, errs) ==
    /\ returned' = <<>>
    /\ errors' = errors \o errs
    /\ trace' = [outcome |-> outcome, steps |-> steps, processed |-> <<>>]
    /\ pc' = "returned"
    /\ UNCHANGED <<ruleArguments, options, aborted, pending, failures>>

\* one console.error call: what it reports and the number of the
\* applyWithProgram call that made it
ErrorCall(kind, names) == [kind |-> kind, names |-> names, call |-> nFiles + 1]

\* Rule.applyWithProgram(sourceFile, program), up to its return or to the
\* first callback of walk
applyWithProgram(file) ==
    /\ pc = "idle"
    /\ nFiles < MaxFiles
    /\ nFiles' = nFiles + 1
    /\ sourceFile' = file
    /\ UNCHANGED <<program, probe>>
    /\ LET baseUrl == program.baseUrl
           filePackage == fileToPackage(file.fileName, baseUrl)
           decoded == Decode(ruleArguments)
       IN
       IF baseUrl = Undefined
       THEN ReturnEmpty("noBaseUrl", {}, <<ErrorCall("baseUrlUndefined", {})>>)
       ELSE IF ~DecodeSucceeds(ruleArguments, filePackage, baseUrl)
       THEN ReturnEmpty("invalidArguments", {"decode"},
                        <<ErrorCall("invalidArguments", {})>>)
       ELSE IF UndeclaredNames(decoded) # {}
       THEN ReturnEmpty("undeclaredLayer", {"decode", "validate"},
                        <<ErrorCall("layerNotDefined", UndeclaredNames(decoded))>>)
       ELSE IF IsExcluded(decoded, filePackage)
       THEN ReturnEmpty("excluded", {"decode", "validate", "exclusionTest"}, <<>>)
       ELSE LET packageLayer == resolvePackageLayer(decoded.layers, filePackage) IN
            /\ options' = [decoded EXCEPT !.filePackage = filePackage,
                                          !.layer = packageLayer]
            /\ \E alias \in (IF MayAlias(ruleArguments) THEN BOOLEAN ELSE {FALSE}) :
                  ruleArguments' = IF alias
                                   THEN [ruleArguments EXCEPT !.layer = packageLayer]
                                   ELSE ruleArguments
            /\ pc' = "walk"
            /\ aborted' = FALSE
            /\ pending' = Children(file.tree, 0)
            /\ failures' = <<>>
            /\ trace' = [outcome |-> "walking",
                         steps |-> {"decode", "validate", "exclusionTest",
                                    "resolveLayer", "walk"},
                         processed |-> <<>>]
            /\ UNCHANGED <<returned, errors>>

\* one call of the callback of walk, for the next node of the traversal
Visit ==
    /\ pc = "walk"
    /\ pending # <<>>
    /\ LET node == Head(pending)
           did == cb(options, sourceFile, node)
       IN
       IF aborted
       THEN /\ pending' = Tail(pending)
            /\ UNCHANGED <<aborted, failures, trace>>
       ELSE /\ failures' = failures \o did.failures
            /\ aborted' = did.abort
            /\ pending' = (IF did.descend THEN Children(sourceFile.tree, node) ELSE <<>>)
                          \o Tail(pending)
            /\ trace' = [trace EXCEPT !.processed = Append(@, node)]
    /\ UNCHANGED <<program, ruleArguments, pc, nFiles, sourceFile, options, returned,
                   errors, probe>>

\* walk is over: applyWithFunction returns the failures
WalkReturn ==
    /\ pc = "walk"
    /\ pending = <<>>
    /\ pc' = "returned"
    /\ returned' = failures
    /\ trace' = [trace EXCEPT !.outcome = "walked"]
    /\ UNCHANGED <<program, ruleArguments, nFiles, sourceFile, options, aborted,
                   pending, failures, errors, probe>>

\* The linter takes the returned failures and goes on to its next file.  The
\* source file, the rule instance, the walk context and the locals of walk
\* belong to the finished call and are gone; the rule arguments, the compiler
\* options and the console output stay.
LinterContinues ==
    /\ pc = "returned"
    /\ pc' = "idle"
    /\ sourceFile' = NoFile
    /\ options' = NoOptions
    /\ aborted' = FALSE
    /\ pending' = <<>>
    /\ failures' = <<>>
    /\ returned' = <<>>
    /\ trace' = NoTrace
    /\ UNCHANGED <<program, ruleArguments, nFiles, errors, probe>>

Next ==
    \/ \E file \in SourceFiles : applyWithProgram(file)
    \/ Visit
    \/ WalkReturn
    \/ LinterContinues

Spec == Init /\ [][Next]_vars

\* ------------------------------------------------------------------------
\* Properties of the check of one file
\* ------------------------------------------------------------------------

\* the package of the file being checked
CheckedPackage == fileToPackage(sourceFile.fileName, program.baseUrl)

\* the policy the rule arguments state
PolicyLayers   == Decode(ruleArguments).layers
PolicyRules    == Decode(ruleArguments).rules
PolicyExcluded == Decode(ruleArguments).excluded

\* the configuration got through decoding and validation for this file
ConfigAccepted == trace.outcome \in {"excluded", "walking", "walked"}

Walking == trace.outcome \in {"walking", "walked"}

Walked == pc = "returned" /\ trace.outcome = "walked"

\* some pattern of some layer matches the package
MatchesSomeLayer(layers, package) ==
    \E i \in 1..Len(layers) : \E j \in 1..Len(layers[i].list) :
        Minimatch(package, layers[i].list[j])

MatchesSomeExclusion(excluded, package) ==
    \E j \in 1..Len(excluded) : Minimatch(package, excluded[j])

\* the import nodes of the file: the module specifiers of import declarations
ImportNodes ==
    {n \in 1..Len(sourceFile.tree) :
        /\ sourceFile.tree[n].kind = "StringLiteral"
        /\ sourceFile.tree[n].parent # 0
        /\ sourceFile.tree[sourceFile.tree[n].parent].kind = "ImportDeclaration"}

TargetPackage(n) ==
    resolveRelativeImport(sourceFile.tree[n].text, sourceFile.fileName, program.baseUrl)

TargetLayer(n) == resolvePackageLayer(PolicyLayers, TargetPackage(n))

FailuresAt(fs, n) == {i \in 1..Len(fs) : fs[i].at = n}

Processed == SeqToSet(trace.processed)

\* rules has an entry for layer s that lists layer t
Lists(rules, s, t) ==
    \E i \in 1..Len(rules) : rules[i].name = s /\ t \in SeqToSet(rules[i].list)

\* C1: a file of an accepted configuration whose package matches no exclusion
\* pattern and no layer pattern is walked, gets exactly one failure, the
\* "file not found in layers config" one at the first node visited, and no
\* node after the first is processed, whatever imports the tree holds.
C1_FailFastUnclassified ==
    (/\ ConfigAccepted
     /\ ~MatchesSomeExclusion(PolicyExcluded, CheckedPackage)
     /\ ~MatchesSomeLayer(PolicyLayers, CheckedPackage))
    => /\ Walking
       /\ Len(trace.processed) <= 1
       /\ Len(failures) = Len(trace.processed)
       /\ \A i \in 1..Len(failures) :
             failures[i] = Failure(Head(Children(sourceFile.tree, 0)),
                                   "FileNotInLayers", <<>>, <<>>, CheckedPackage)
       /\ Walked => (Len(returned) = 1 /\ returned = failures
                     /\ trace.processed = <<Head(Children(sourceFile.tree, 0))>>)

C1_Witness ==
    /\ Walked
    /\ ~MatchesSomeLayer(PolicyLayers, CheckedPackage)
    /\ Cardinality(ImportNodes) >= 2
    /\ \E n \in ImportNodes : TargetLayer(n) = Undefined
    /\ \E n \in ImportNodes : TargetLayer(n) # Undefined
    /\ Len(returned) = 1

\* C2: in a classified file with own layer S, an import node whose target
\* resolves to a layer T other than S gets the failure "'S' is not allowed to
\* import 'T' (package)" exactly if rules has no entry for S that lists T; an
\* import whose target layer is listed gets no failure.
C2_AllowListEnforced ==
    (Walked /\ ~NoLayer(options.layer)) =>
        \A n \in ImportNodes :
            LET S == options.layer
                T == TargetLayer(n)
            IN (T # Undefined /\ T # S) =>
                 /\ (Failure(n, "NotAllowed", S, T, TargetPackage(n)) \in SeqToSet(returned))
                       <=> ~Lists(PolicyRules, S, T)
                 /\ Lists(PolicyRules, S, T) => FailuresAt(returned, n) = {}
                 /\ Cardinality(FailuresAt(returned, n)) <= 1

C2_Witness ==
    /\ Walked
    /\ ~NoLayer(options.layer)
    /\ options.layer \in TableNames(PolicyRules)
    /\ \E n \in ImportNodes :
          /\ TargetLayer(n) \notin {Undefined, options.layer}
          /\ ~Lists(PolicyRules, options.layer, TargetLayer(n))
          /\ FailuresAt(returned, n) # {}
    /\ Len(returned) >= 1

\* C3: an import node whose target layer is the file's own layer never gets a
\* failure, whether the allow-list table has no entry for the layer, an empty
\* list, or a list without the layer itself.
C3_SameLayerExempt ==
    (Walking /\ ~NoLayer(options.layer)) =>
        \A n \in ImportNodes :
            FailuresAt(failures, n) = {} \/ TargetLayer(n) # options.layer

C3_Witness ==
    /\ Walked
    /\ ~NoLayer(options.layer)
    /\ ~Lists(PolicyRules, options.layer, options.layer)
    /\ \E n \in ImportNodes :
          /\ TargetLayer(n) = options.layer
          /\ n \in Processed
          /\ FailuresAt(returned, n) = {}

\* the names the allow-list table uses that the layer table does not declare
UsedButUndeclared ==
    {x \in TableNames(PolicyRules)
           \cup UNION {SeqToSet(PolicyRules[i].list) : i \in 1..Len(PolicyRules)} :
        \A i \in 1..Len(PolicyLayers) : PolicyLayers[i].name # x}

\* C4: a decoded policy is rejected exactly if some name used as a key or as a
\* list element of rules is no key of layers; the names reported are exactly
\* the used, undeclared ones, and the file is neither tested against the
\* exclusions, nor layer-resolved, nor walked, and gets no failure.
C4_ConfigurationValidated ==
    (pc = "returned" /\ "decode" \in trace.steps
     /\ trace.outcome # "invalidArguments") =>
        /\ (trace.outcome = "undeclaredLayer") <=> (UsedButUndeclared # {})
        /\ trace.outcome = "undeclaredLayer" =>
              /\ errors # <<>>
              /\ errors[Len(errors)].kind = "layerNotDefined"
              /\ errors[Len(errors)].names = UsedButUndeclared
              /\ trace.steps \cap {"exclusionTest", "resolveLayer", "walk"} = {}
              /\ trace.processed = <<>>
              /\ returned = <<>>
        /\ trace.outcome # "undeclaredLayer" =>
              \A i \in 1..Len(errors) :
                  errors[i].call = nFiles => errors[i].kind # "layerNotDefined"

C4_Witness ==
    /\ pc = "returned"
    /\ trace.outcome = "undeclaredLayer"
    /\ Cardinality(UsedButUndeclared) >= 2
    /\ errors[Len(errors)].names = UsedButUndeclared

\* C7: with a valid policy, a file whose package matches a pattern of the
\* exclusion list gets no failure, and its check ends before its own layer is
\* resolved and before any node is visited, also when the file matches no
\* layer.
C7_ExclusionShortCircuit ==
    (ConfigAccepted /\ MatchesSomeExclusion(PolicyExcluded, CheckedPackage)) =>
        /\ trace.outcome = "excluded"
        /\ pc = "returned"
        /\ returned = <<>>
        /\ failures = <<>>
        /\ trace.steps \cap {"resolveLayer", "walk"} = {}
        /\ trace.processed = <<>>

C7_Witness ==
    /\ pc = "returned"
    /\ trace.outcome = "excluded"
    /\ ~MatchesSomeLayer(PolicyLayers, CheckedPackage)
    /\ \E n \in ImportNodes : TargetLayer(n) = Undefined
    /\ returned = <<>>

\* the import nodes that the policy faults
Offending(n) ==
    \/ TargetLayer(n) = Undefined
    \/ /\ TargetLayer(n) # options.layer
       /\ ~Lists(PolicyRules, options.layer, TargetLayer(n))

\* C10: in a classified file an import node whose package matches no layer
\* gets exactly one failure, "<package> not matched to any layer", and the
\* walk goes on: every import node is resolved and checked, and the failures
\* are one per offending import, in document order.
C10_UnmatchedGoesOn ==
    (Walked /\ ~NoLayer(options.layer)) =>
        /\ \A n \in ImportNodes :
              TargetLayer(n) = Undefined =>
                 /\ Cardinality(FailuresAt(returned, n)) = 1
                 /\ Failure(n, "NotMatched", <<>>, <<>>, TargetPackage(n))
                        \in SeqToSet(returned)
        /\ ImportNodes \subseteq Processed
        /\ \A i, j \in 1..Len(returned) : i < j => returned[i].at < returned[j].at
        /\ {returned[i].at : i \in 1..Len(returned)} = {n \in ImportNodes : Offending(n)}

C10_Witness ==
    /\ Walked
    /\ ~NoLayer(options.layer)
    /\ Len(returned) >= 2
    /\ returned[1].msg = "NotMatched"
    /\ returned[2].msg = "NotAllowed"

ConfigErrors == {"noBaseUrl", "invalidArguments", "undeclaredLayer"}

\* C5: a fatal configuration error is reported once for the run and not once
\* per file, no file is processed after it, and what the host is handed
\* differs from what it is handed for a file found clean (no failures).
C5_FatalErrorOncePerRun ==
    /\ Len(errors) <= 1
    /\ errors # <<>> => nFiles = errors[1].call
    /\ (pc = "returned" /\ trace.outcome \in ConfigErrors) => returned # <<>>

\* ------------------------------------------------------------------------
\* resolvePackageLayer on its own: a layer table and a package are drawn,
\* and the function is applied
\* ------------------------------------------------------------------------

\* layers in one table
MaxLayers == 3

\* a: ["f/*"], b: ["f/g"], "2": ["g", "F/**"], e: [], "10": ["*"]
LayerEntries ==
    {Entry(<<"a">>, << <<"f", "/", "*">> >>),
     Entry(<<"b">>, << <<"f", "/", "g">> >>),
     Entry(<<"2">>, << <<"g">>, <<"F", "/", "*", "*">> >>),
     Entry(<<"e">>, <<>>),
     Entry(<<"1", "0">>, << <<"*">> >>)}

\* the tables of at most MaxLayers entries, no name twice, in every order
ProbeTables ==
    {t \in SeqsUpTo(LayerEntries, MaxLayers) :
        \A i, j \in 1..Len(t) : i # j => t[i] # t[j]}

ProbePackages ==
    {<<"f", "/", "g">>, <<"f", "/", "h">>, <<"g">>, <<"k", "/", "m">>}

InitLayer ==
    /\ program = [baseUrl |-> BaseDir]
    /\ ruleArguments = PlainArguments
    /\ pc = "idle"
    /\ nFiles = 0
    /\ sourceFile = NoFile
    /\ options = NoOptions
    /\ aborted = FALSE
    /\ pending = <<>>
    /\ failures = <<>>
    /\ returned = <<>>
    /\ errors = <<>>
    /\ trace = NoTrace
    /\ probe \in {[kind |-> "layer", layers |-> t, package |-> p,
                   done |-> FALSE, result |-> Undefined] :
                     t \in ProbeTables, p \in ProbePackages}

ResolveLayer ==
    /\ probe.kind = "layer"
    /\ ~probe.done
    /\ probe' = [probe EXCEPT !.done = TRUE,
                              !.result = resolvePackageLayer(probe.layers, probe.package)]
    /\ UNCHANGED <<program, ruleArguments, pc, nFiles, sourceFile, options, aborted,
                   pending, failures, returned, errors, trace>>

NextLayer == ResolveLayer

SpecLayer == InitLayer /\ [][NextLayer]_vars

\* the positions of the table whose layer has a pattern matching the package
MatchingPositions(layers, package) ==
    {i \in 1..Len(layers) :
        \E j \in 1..Len(layers[i].list) : Minimatch(package, layers[i].list[j])}

SetMin(S) == CHOOSE x \in S : \A y \in S : x <= y

\* C6: resolvePackageLayer returns the first layer, in the declaration order
\* of the table, that has a pattern matching the package, and none exactly
\* when no pattern of any layer matches, whatever the layers are called.
C6_FirstDeclaredLayerWins ==
    (probe.kind = "layer" /\ probe.done) =>
        LET hits == MatchingPositions(probe.layers, probe.package) IN
        probe.result = IF hits = {} THEN Undefined
                       ELSE probe.layers[SetMin(hits)].name

\* ------------------------------------------------------------------------
\* fileToPackage and resolveRelativeImport on their own: an importing file,
\* a target file and a quote character are drawn, and the functions applied
\* ------------------------------------------------------------------------

ProbeImporters ==
    {FileUi, FileRoot,
     <<"/", "c", "/", "x", ".", "t", "s">>,
     <<"/", "x", ".", "t", "s">>}

\* /b/u/g.ts, /b/g.ts, /b/u/v/g.ts, /bx/g.ts, /c/g.ts, /g.ts
ProbeTargets ==
    {<<"/", "b", "/", "u", "/", "g", ".", "t", "s">>,
     <<"/", "b", "/", "g", ".", "t", "s">>,
     <<"/", "b", "/", "u", "/", "v", "/", "g", ".", "t", "s">>,
     <<"/", "b", "x", "/", "g", ".", "t", "s">>,
     <<"/", "c", "/", "g", ".", "t", "s">>,
     <<"/", "g", ".", "t", "s">>}

Quotes == {"'", "\""}

\* the directories of an absolute path, outermost first
DirParts(dir) == NormalizeSegs(SplitOn(dir, "/"), <<>>, FALSE)

RECURSIVE Ups(_)
Ups(n) == IF n = 0 THEN <<>> ELSE <<".", ".", "/">> \o Ups(n - 1)

\* the relative, extension-less specifier that names file target from the
\* directory of file importer: "../" for each directory to leave, or "./"
RelativeSpecifier(importer, target) ==
    LET from == DirParts(PathDirname(importer))
        parsed == PathParse(target)
        to == DirParts(parsed.dir)
        shared == {k \in 0..Len(from) :
                     k <= Len(to) /\ SubSeq(from, 1, k) = SubSeq(to, 1, k)}
        k == SetMax(shared)
        up == Len(from) - k
    IN (IF up = 0 THEN <<".", "/">> ELSE Ups(up))
       \o JoinWith(SubSeq(to, k + 1, Len(to)) \o <<parsed.name>>, "/")

\* a library specifier, which names no file
LibrarySpecifier == <<"l">>

InitResolve ==
    /\ program = [baseUrl |-> BaseDir]
    /\ ruleArguments = PlainArguments
    /\ pc = "idle"
    /\ nFiles = 0
    /\ sourceFile = NoFile
    /\ options = NoOptions
    /\ aborted = FALSE
    /\ pending = <<>>
    /\ failures = <<>>
    /\ returned = <<>>
    /\ errors = <<>>
    /\ trace = NoTrace
    /\ probe \in
          {[kind |-> "resolve", importer |-> f, target |-> g, quote |-> q,
            specifier |-> RelativeSpecifier(f, g),
            named |-> Undefined, bare |-> Undefined, quoted |-> Undefined] :
              f \in ProbeImporters, g \in ProbeTargets, q \in Quotes}
          \cup
          {[kind |-> "resolve", importer |-> f, target |-> <<>>, quote |-> q,
            specifier |-> LibrarySpecifier,
            named |-> Undefined, bare |-> Undefined, quoted |-> Undefined] :
              f \in ProbeImporters, q \in Quotes}

\* PackageNamer on the target file
NameTarget ==
    /\ probe.kind = "resolve"
    /\ probe.target # <<>>
    /\ probe.named = Undefined
    /\ probe' = [probe EXCEPT !.named = fileToPackage(probe.target, program.baseUrl)]
    /\ UNCHANGED <<program, ruleArguments, pc, nFiles, sourceFile, options, aborted,
                   pending, failures, returned, errors, trace>>

\* ImportResolver on the specifier without quotes
ResolveBare ==
    /\ probe.kind = "resolve"
    /\ probe.bare = Undefined
    /\ probe' = [probe EXCEPT !.bare =
                    resolveRelativeImport(probe.specifier, probe.importer, program.baseUrl)]
    /\ UNCHANGED <<program, ruleArguments, pc, nFiles, sourceFile, options, aborted,
                   pending, failures, returned, errors, trace>>

\* ImportResolver on the token text: the specifier in one pair of quotes
ResolveQuoted ==
    /\ probe.kind = "resolve"
    /\ probe.quoted = Undefined
    /\ probe' = [probe EXCEPT !.quoted =
                    resolveRelativeImport(<<probe.quote>> \o probe.specifier \o <<probe.quote>>,
                                          probe.importer, program.baseUrl)]
    /\ UNCHANGED <<program, ruleArguments, pc, nFiles, sourceFile, options, aborted,
                   pending, failures, returned, errors, trace>>

NextResolve ==
    \/ NameTarget
    \/ ResolveBare
    \/ ResolveQuoted

SpecResolve == InitResolve /\ [][NextResolve]_vars

\* C8: resolving the token text of a specifier in one pair of quotes, single
\* or double, gives the package that resolving the specifier without quotes
\* gives.
C8_QuotesStripped ==
    (probe.kind = "resolve" /\ probe.bare # Undefined /\ probe.quoted # Undefined)
        => probe.quoted = probe.bare

\* C9: the package ImportResolver gives for the relative specifier naming
\* target file G from the directory of importing file F is the package
\* PackageNamer gives for G, G and F lying in the base directory or outside.
C9_NamerResolverAgree ==
    (probe.kind = "resolve" /\ probe.named # Undefined /\ probe.bare # Undefined)
        => probe.bare = probe.named

====
